---- MODULE Spec2Model ----
(***************************************************************************)
(* Model of nfactorial/net_core: the SessionServer connection registry,    *)
(* the Connection wrapper of one transport socket and the reusable         *)
(* ConnectionRequestEventArgs arbitration record.                          *)
(*                                                                         *)
(* JavaScript runs one callback at a time.  The only place where foreign   *)
(* code runs in the middle of a handler of this repository is the          *)
(* CONNECTION_REQUEST broadcast of _onConnectionAttempt (fire() at         *)
(* part_001:129): every other fire() is the last statement of its handler, *)
(* so what a subscriber does during a CONNECT or DISCONNECT broadcast is    *)
(* what the same call does right after the handler.  pc = "request" is the *)
(* position inside that broadcast; pc = "idle" is the event loop.          *)
(*                                                                         *)
(* The transport (sockjs) and the subscribers are not code of this         *)
(* repository.  The transport delivers sockets while the server is active  *)
(* and signals 'close' on a socket from the event loop, at any time after  *)
(* the socket was delivered, whoever closed it, and possibly again.  A     *)
(* subscriber answers a CONNECTION_REQUEST with any sequence of allow(),   *)
(* deny(err) and disconnect(err) calls; a call that throws inside a        *)
(* broadcast is caught by the subscriber that made it.  Date.now() is a    *)
(* clock that advances between callbacks.                                  *)
(***************************************************************************)
EXTENDS Integers, Sequences, FiniteSets, TLC

\* ------------------------------------------------------------------ bounds
\* Number of sockets the transport hands to the server in one behaviour.
MaxSockets == 2
\* Number of calls the subscribers make during one CONNECTION_REQUEST broadcast.
MaxCalls == 3
\* The clock stops at this many milliseconds.
MaxNow == 7500

\* --------------------------------------------------------------- constants
\* JavaScript null (and undefined): an absent reference.
NULL == 0
\* The one SessionServer of the model, as the value of a back-reference.
SERVER == 1
\* The sockjs server and the http server onActivate creates, as references.
SOCKJS_SERVER == 1
HTTP_SERVER == 1

\* Connection.Errors.SERVER_FULL and SESSION_TERMINATED.
SERVER_FULL == [id |-> 100, msg |-> "Server Full"]
SESSION_TERMINATED == [id |-> 101, msg |-> "Session Terminated"]
\* An application-specific descriptor, passed through opaquely.
BANNED == [id |-> 42, msg |-> "banned"]
\* An omitted descriptor (null / undefined argument), kept record-shaped.
NO_ERROR == [id |-> NULL, msg |-> "null"]

\* The descriptors subscribers pass to deny(err).
Errors == {SESSION_TERMINATED, BANNED}

\* The descriptor callers pass to disconnect(err): it only travels on to
\* socket.close.
DisconnectErrors == {SESSION_TERMINATED}

\* CONNECTION_TIMEOUT, in milliseconds.
CONNECTION_TIMEOUT == 5000

\* The amounts by which Date.now() is seen to advance between two callbacks:
\* their sums reach 4999, 5000 and more than 5000.
ClockSteps == {2499, 2500}

\* SessionServer.Events
CONNECTION_REQUEST == "CONNECTION_REQUEST"
CONNECT == "CONNECT"
DISCONNECT == "DISCONNECT"

\* ------------------------------------------------------------------- state
VARIABLES
    app,                    \* SessionServer.app: NULL or SOCKJS_SERVER
    httpServer,             \* SessionServer.httpServer: NULL or HTTP_SERVER
    connectionList,         \* SessionServer.connectionList: sequence of Connection ids
    connectionRequestArgs,  \* SessionServer.connectionRequestArgs (the shared record)
    connections,            \* every Connection constructed so far: id -> [sessionServer, socket]
    sockets,                \* per transport socket, "open" or, once it has signalled 'close', "closed"
    closeCalls,             \* per transport socket, the (id, msg) of every socket.close made on it
    fired,                  \* every fire(event, payload) made so far, in order
    pc,                     \* "idle", or "request" inside the CONNECTION_REQUEST broadcast
    connection,             \* the local `connection` of the running _onConnectionAttempt, or NULL
    calls,                  \* the calls the subscribers made so far in the running broadcast
    now,                    \* Date.now(), in milliseconds since the start of the behaviour
    keepAlive,              \* per Connection, its keepAlive timestamp
    thrown,                 \* what the last call threw: "none", "TypeError" or "Error"
    nullCall                \* the name of the last call, when its argument was null or omitted, else "none"

vars == <<app, httpServer, connectionList, connectionRequestArgs, connections,
          sockets, closeCalls, fired, pc, connection, calls, now, keepAlive,
          thrown, nullCall>>

timeVars == <<now, keepAlive>>

serverVars == <<app, httpServer>>

Conns == 1..Len(connections)

Call(name, err) == [op |-> name, err |-> err]

Fire(log, event, payload) == Append(log, [event |-> event, payload |-> payload])

\* --------------------------------------------- ConnectionRequestEventArgs
\* constructor
NewConnectionRequestEventArgs ==
    [_isAllowed |-> FALSE, _isDenied |-> FALSE, connection |-> NULL,
     error |-> [id |-> SERVER_FULL.id, msg |-> SERVER_FULL.msg]]

\* Mutant of initialize: the error of the previous attempt is not reset.
initialize_keepsError(args, c) ==
    [args EXCEPT !._isAllowed = FALSE, !._isDenied = FALSE, !.connection = c]

\* Mutant of initialize: an earlier approval survives the reset.
initialize_keepsAllowed(args, c) ==
    [args EXCEPT !._isDenied = FALSE,
                 !.error = [id |-> SERVER_FULL.id, msg |-> SERVER_FULL.msg],
                 !.connection = c]

\* Mutant of initialize: an explicit denial survives the reset.
initialize_keepsDenied(args, c) ==
    [args EXCEPT !._isAllowed = FALSE,
                 !.error = [id |-> SERVER_FULL.id, msg |-> SERVER_FULL.msg],
                 !.connection = c]

\* initialize(connection), lines 44-46: the call throws an Error.
initializeThrows(c) == c = NULL

\* initialize(connection), connection non-null
initialize(args, c) ==
    [args EXCEPT !._isAllowed = FALSE,
                 !._isDenied = FALSE,
                 !.error = [id |-> SERVER_FULL.id, msg |-> SERVER_FULL.msg],
                 !.connection = c]

\* Mutant of denyThrows: the argument is not checked.
denyThrows_never(err) == FALSE

\* deny(err), lines 64-66: the call throws an Error.
denyThrows(err) == err = NO_ERROR

\* deny(err), err non-null
deny(args, err) ==
    [args EXCEPT !.error = [id |-> err.id, msg |-> err.msg],
                 !._isDenied = TRUE]

\* Mutant of allow: the approval overrides an earlier denial.
allow_clearsDeny(args) == [args EXCEPT !._isAllowed = TRUE, !._isDenied = FALSE]

\* allow()
allow(args) == [args EXCEPT !._isAllowed = TRUE]

\* Mutant of isDenied: only an explicit denial counts (no default-deny).
isDenied_explicitOnly(args) == args._isDenied

\* get isDenied
isDenied(args) == args._isDenied \/ ~args._isAllowed

\* get isAllowed
isAllowed(args) == args._isAllowed

\* ------------------------------------------------------------ Connection
\* constructor(sessionServer, socket): socket s is wrapped by Connection s.
NewConnection(s) == [sessionServer |-> SERVER, socket |-> s]

\* Mutant of disconnect: the `if (this.socket)` guard is missing.
disconnect_unguarded(conn, err) ==
    [conn |-> [conn EXCEPT !.sessionServer = NULL, !.socket = NULL],
     closed |-> <<[id |-> err.id, msg |-> err.msg]>>,
     thrown |-> "none"]

\* disconnect(err) on Connection object conn: the object afterwards, the
\* socket.close calls made, and what the call threw.  With the socket
\* present and err null, reading err.id throws a TypeError before socket.close
\* is called and before any field is assigned.
disconnect(conn, err) ==
    IF conn.socket # NULL
    THEN IF err = NO_ERROR
         THEN [conn |-> conn, closed |-> <<>>, thrown |-> "TypeError"]
         ELSE [conn |-> [conn EXCEPT !.sessionServer = NULL, !.socket = NULL],
               closed |-> <<[id |-> err.id, msg |-> err.msg]>>,
               thrown |-> "none"]
    ELSE [conn |-> conn, closed |-> <<>>, thrown |-> "none"]

\* isAlive(): `this.socket && (Date.now() - this.keepAlive) < CONNECTION_TIMEOUT`
\* on Connection object conn with timestamp ka, read at time t.  The && yields
\* its left operand when that is falsy, so the call returns null, not false,
\* once the socket reference is null.
isAlive(conn, ka, t) ==
    IF conn.socket = NULL
    THEN "null"
    ELSE IF (t - ka) < CONNECTION_TIMEOUT THEN "true" ELSE "false"

\* ---------------------------------------------------------- SessionServer
\* Mutant of indexOf: an element that is not found is reported at the front.
indexOf_notFoundIsFirst(list, c) ==
    IF \E i \in 1..Len(list) : list[i] = c
    THEN CHOOSE i \in 1..Len(list) : list[i] = c /\ \A j \in 1..(i - 1) : list[j] # c
    ELSE 1

\* Array.prototype.indexOf: the first index holding c, or -1.
indexOf(list, c) ==
    IF \E i \in 1..Len(list) : list[i] = c
    THEN CHOOSE i \in 1..Len(list) : list[i] = c /\ \A j \in 1..(i - 1) : list[j] # c
    ELSE -1

\* Mutant of splice: nothing is removed.
splice_removesNothing(list, index) == list

\* Mutant of splice: splice(index) without the count removes the tail too.
splice_toEnd(list, index) == SubSeq(list, 1, index - 1)

\* Array.prototype.splice(index, 1)
splice(list, index) == SubSeq(list, 1, index - 1) \o SubSeq(list, index + 1, Len(list))

\* removeConnection(connection), lines 105-107: the call throws an Error.
removeConnectionThrows(c) == c = NULL

\* Mutant of removeConnection: the not-found branch notifies as well.
removeConnection_alwaysFires(list, log, c) ==
    LET index == indexOf(list, c)
    IN  IF index = -1
        THEN [connectionList |-> list, fired |-> Fire(log, DISCONNECT, c)]
        ELSE [connectionList |-> splice(list, index),
              fired |-> Fire(log, DISCONNECT, c)]

\* removeConnection(connection), connection non-null: the list and the
\* notifications after the call.
removeConnection(list, log, c) ==
    LET index == indexOf(list, c)
    IN  IF index = -1
        THEN [connectionList |-> list, fired |-> log]
        ELSE [connectionList |-> splice(list, index),
              fired |-> Fire(log, DISCONNECT, c)]

Init ==
    /\ app = NULL
    /\ httpServer = NULL
    /\ connectionList = <<>>
    /\ connectionRequestArgs = NewConnectionRequestEventArgs
    /\ connections = <<>>
    /\ sockets = <<>>
    /\ closeCalls = <<>>
    /\ fired = <<>>
    /\ pc = "idle"
    /\ connection = NULL
    /\ calls = <<>>
    /\ now = 0
    /\ keepAlive = <<>>
    /\ thrown = "none"
    /\ nullCall = "none"

\* SessionServer.onActivate: called by the framework when the system becomes
\* active; creates the sockjs server and the http server and listens.
onActivate ==
    /\ pc = "idle"
    /\ app = NULL
    /\ app' = SOCKJS_SERVER
    /\ httpServer' = HTTP_SERVER
    /\ thrown' = "none"
    /\ nullCall' = "none"
    /\ UNCHANGED timeVars
    /\ UNCHANGED <<connectionList, connectionRequestArgs, connections, sockets,
                   closeCalls, fired, pc, connection, calls>>

\* Mutant of onDeactivate: the listed Connections are dropped.
onDeactivate_dropsConnections ==
    /\ pc = "idle"
    /\ app # NULL
    /\ app' = NULL
    /\ httpServer' = NULL
    /\ connectionList' = <<>>
    /\ thrown' = "none"
    /\ nullCall' = "none"
    /\ UNCHANGED timeVars
    /\ UNCHANGED <<connectionRequestArgs, connections, sockets,
                   closeCalls, fired, pc, connection, calls>>

\* SessionServer.onDeactivate: closes both servers and forgets them.
onDeactivate ==
    /\ pc = "idle"
    /\ app # NULL
    /\ app' = NULL
    /\ httpServer' = NULL
    /\ thrown' = "none"
    /\ nullCall' = "none"
    /\ UNCHANGED timeVars
    /\ UNCHANGED <<connectionList, connectionRequestArgs, connections, sockets,
                   closeCalls, fired, pc, connection, calls>>

\* SessionServer._onConnectionAttempt(socket), lines 123-129: the sockjs server
\* delivers a new socket; the Connection is constructed, the shared record is
\* initialized with it and the CONNECTION_REQUEST broadcast starts.
onConnectionAttempt_request ==
    /\ pc = "idle"
    /\ app # NULL
    /\ Len(connections) < MaxSockets
    /\ LET s == Len(connections) + 1
       IN  /\ connections' = Append(connections, NewConnection(s))
           /\ sockets' = Append(sockets, "open")
           /\ closeCalls' = Append(closeCalls, <<>>)
           /\ connection' = s
           /\ connectionRequestArgs' = initialize(connectionRequestArgs, s)
           /\ fired' = Fire(fired, CONNECTION_REQUEST, s)
           /\ thrown' = "none"
           /\ nullCall' = "none"
    /\ pc' = "request"
    /\ calls' = <<>>
    /\ keepAlive' = Append(keepAlive, now)
    /\ UNCHANGED <<serverVars, connectionList, now>>

\* Mutant of onConnectionAttempt_verdict: the bound connection is not cleared.
onConnectionAttempt_verdict_keepsConnection ==
    /\ pc = "request"
    /\ LET args == connectionRequestArgs
       IN  /\ connectionRequestArgs' = args
           /\ IF isDenied(args)
              THEN /\ closeCalls' = [closeCalls EXCEPT ![connection] =
                                        Append(@, [id |-> args.error.id, msg |-> args.error.msg])]
                   /\ UNCHANGED <<connectionList, fired>>
              ELSE /\ connectionList' = Append(connectionList, connection)
                   /\ fired' = Fire(fired, CONNECT, connection)
                   /\ UNCHANGED closeCalls
    /\ thrown' = "none"
    /\ nullCall' = "none"
    /\ pc' = "idle"
    /\ connection' = NULL
    /\ calls' = <<>>
    /\ UNCHANGED timeVars
    /\ UNCHANGED <<serverVars, connections, sockets>>

\* SessionServer._onConnectionAttempt(socket), lines 131-142: the broadcast has
\* returned; the bound connection is cleared and the verdict is read.
onConnectionAttempt_verdict ==
    /\ pc = "request"
    /\ LET args == [connectionRequestArgs EXCEPT !.connection = NULL]
       IN  /\ connectionRequestArgs' = args
           /\ IF isDenied(args)
              THEN /\ closeCalls' = [closeCalls EXCEPT ![connection] =
                                        Append(@, [id |-> args.error.id, msg |-> args.error.msg])]
                   /\ UNCHANGED <<connectionList, fired>>
              ELSE /\ connectionList' = Append(connectionList, connection)
                   /\ fired' = Fire(fired, CONNECT, connection)
                   /\ UNCHANGED closeCalls
    /\ thrown' = "none"
    /\ nullCall' = "none"
    /\ pc' = "idle"
    /\ connection' = NULL
    /\ calls' = <<>>
    /\ UNCHANGED timeVars
    /\ UNCHANGED <<serverVars, connections, sockets>>

\* A call made by foreign code: inside the CONNECTION_REQUEST broadcast it is
\* one of at most MaxCalls subscriber calls and is remembered in calls.
CallAllowed == pc = "request" => Len(calls) < MaxCalls

Remember(call) ==
    calls' = IF pc = "request" THEN Append(calls, call) ELSE calls

\* ConnectionRequestEventArgs.allow(), by a subscriber holding the record.
Allow ==
    /\ CallAllowed
    /\ connectionRequestArgs' = allow(connectionRequestArgs)
    /\ Remember(Call("allow", NO_ERROR))
    /\ thrown' = "none"
    /\ nullCall' = "none"
    /\ UNCHANGED timeVars
    /\ UNCHANGED <<serverVars, connectionList, connections, sockets, closeCalls,
                   fired, pc, connection>>

\* ConnectionRequestEventArgs.initialize(c) called by foreign code holding the
\* record; a caller inside a broadcast catches what the call throws.
Initialize(c) ==
    /\ CallAllowed
    /\ IF initializeThrows(c)
       THEN /\ connectionRequestArgs' = connectionRequestArgs
            /\ thrown' = "Error"
       ELSE /\ connectionRequestArgs' = initialize(connectionRequestArgs, c)
            /\ thrown' = "none"
    /\ nullCall' = IF c = NULL THEN "initialize" ELSE "none"
    /\ UNCHANGED timeVars
    /\ UNCHANGED <<serverVars, connectionList, connections, sockets, closeCalls,
                   fired, pc, connection, calls>>

\* ConnectionRequestEventArgs.deny(err); a subscriber that omits err inside a
\* broadcast catches what the call throws.
Deny(err) ==
    /\ CallAllowed
    /\ IF denyThrows(err)
       THEN /\ connectionRequestArgs' = connectionRequestArgs
            /\ calls' = calls
            /\ thrown' = "Error"
       ELSE /\ connectionRequestArgs' = deny(connectionRequestArgs, err)
            /\ Remember(Call("deny", err))
            /\ thrown' = "none"
    /\ nullCall' = IF err = NO_ERROR THEN "deny" ELSE "none"
    /\ UNCHANGED timeVars
    /\ UNCHANGED <<serverVars, connectionList, connections, sockets, closeCalls,
                   fired, pc, connection>>

\* Connection.disconnect(err) on Connection c, from the event loop or, on the
\* Connection of the running attempt (connectionRequestArgs.connection), from
\* a subscriber of its broadcast.  Inside a broadcast a call on an older
\* Connection does what the same call does just before the attempt, and a
\* call with err omitted is made from the event loop only.
Disconnect(c, err) ==
    /\ pc = "request" => c = connectionRequestArgs.connection /\ err # NO_ERROR
    /\ LET r == disconnect(connections[c], err)
       IN  /\ connections' = [connections EXCEPT ![c] = r.conn]
           /\ closeCalls' = [closeCalls EXCEPT ![c] = @ \o r.closed]
           /\ thrown' = r.thrown
           /\ nullCall' = IF err = NO_ERROR THEN "disconnect" ELSE "none"
    /\ UNCHANGED timeVars
    /\ UNCHANGED <<serverVars, connectionList, connectionRequestArgs, sockets, fired,
                   pc, connection, calls>>

\* Mutant of onSocketClosed: the socket reference is not cleared.
onSocketClosed_keepsSocket(c) ==
    /\ pc = "idle"
    /\ sockets' = [sockets EXCEPT ![c] = "closed"]
    /\ IF connections[c].sessionServer # NULL
       THEN LET r == removeConnection(connectionList, fired, c)
            IN  /\ connectionList' = r.connectionList
                /\ fired' = r.fired
       ELSE UNCHANGED <<connectionList, fired>>
    /\ thrown' = "none"
    /\ nullCall' = "none"
    /\ UNCHANGED timeVars
    /\ UNCHANGED <<serverVars, connectionRequestArgs, connections, closeCalls, pc,
                   connection, calls>>

\* Connection._onSocketClosed: the transport signals 'close' on socket c's
\* Connection, after a close by either side; the event loop runs the callback.
onSocketClosed(c) ==
    /\ pc = "idle"
    /\ sockets' = [sockets EXCEPT ![c] = "closed"]
    /\ connections' = [connections EXCEPT ![c].socket = NULL]
    /\ IF connections[c].sessionServer # NULL
       THEN LET r == removeConnection(connectionList, fired, c)
            IN  /\ connectionList' = r.connectionList
                /\ fired' = r.fired
       ELSE UNCHANGED <<connectionList, fired>>
    /\ thrown' = "none"
    /\ nullCall' = "none"
    /\ UNCHANGED timeVars
    /\ UNCHANGED <<serverVars, connectionRequestArgs, closeCalls, pc, connection, calls>>

\* SessionServer.removeConnection(connection) called from outside a Connection.
RemoveConnection(c) ==
    /\ pc = "idle"
    /\ IF removeConnectionThrows(c)
       THEN /\ UNCHANGED <<connectionList, fired>>
            /\ thrown' = "Error"
       ELSE /\ LET r == removeConnection(connectionList, fired, c)
               IN  /\ connectionList' = r.connectionList
                   /\ fired' = r.fired
            /\ thrown' = "none"
    /\ nullCall' = IF c = NULL THEN "removeConnection" ELSE "none"
    /\ UNCHANGED timeVars
    /\ UNCHANGED <<serverVars, connectionRequestArgs, connections, sockets,
                   closeCalls, pc, connection, calls>>

\* Time passes between two callbacks.
Tick(d) ==
    /\ pc = "idle"
    /\ now + d <= MaxNow
    /\ now' = now + d
    /\ thrown' = "none"
    /\ nullCall' = "none"
    /\ UNCHANGED <<serverVars, connectionList, connectionRequestArgs, connections,
                   sockets, closeCalls, fired, pc, connection, calls, keepAlive>>

\* Activation, connection attempts with the subscribers' allow() and deny()
\* calls of their broadcasts, disconnect calls and transport close callbacks.
NextLifecycle ==
    \/ onActivate
    \/ onConnectionAttempt_request
    \/ onConnectionAttempt_verdict
    \/ pc = "request" /\ Allow
    \/ pc = "request" /\ \E err \in Errors : Deny(err)
    \/ \E c \in Conns, err \in DisconnectErrors : Disconnect(c, err)
    \/ \E c \in Conns : onSocketClosed(c)

\* The same, and removeConnection called from outside a Connection.
Next ==
    \/ NextLifecycle
    \/ \E c \in Conns : RemoveConnection(c)

\* The same, and what the host and the subscribers can do at any other time:
\* deactivation, and allow() and deny(err) on the shared record outside a
\* CONNECTION_REQUEST broadcast.
NextHost ==
    \/ Next
    \/ onDeactivate
    \/ pc = "idle" /\ Allow
    \/ pc = "idle" /\ \E err \in Errors : Deny(err)

\* Next, and the calls made with the argument omitted.
NextMisuse ==
    \/ Next
    \/ \E c \in Conns : Disconnect(c, NO_ERROR)
    \/ Initialize(NULL)
    \/ Deny(NO_ERROR)
    \/ RemoveConnection(NULL)

\* Connection attempts approved or left unanswered, disconnect calls and
\* transport close callbacks, while time passes.
NextTime ==
    \/ onActivate
    \/ onConnectionAttempt_request
    \/ onConnectionAttempt_verdict
    \/ pc = "request" /\ Allow
    \/ \E c \in Conns, err \in DisconnectErrors : Disconnect(c, err)
    \/ \E c \in Conns : onSocketClosed(c)
    \/ \E d \in ClockSteps : Tick(d)

Spec == Init /\ [][Next]_vars

SpecLifecycle == Init /\ [][NextLifecycle]_vars

SpecHost == Init /\ [][NextHost]_vars

SpecMisuse == Init /\ [][NextMisuse]_vars

SpecTime == Init /\ [][NextTime]_vars

\* ------------------------------------------------------------- properties
InList(c) == \E i \in 1..Len(connectionList) : connectionList[i] = c

\* How many times event was fired with payload c.
Count(log, event, c) ==
    Cardinality({i \in 1..Len(log) : log[i] = [event |-> event, payload |-> c]})

\* The verdict branch of c's attempt was "approved": CONNECT was fired for it.
Approved(c) == Count(fired, CONNECT, c) > 0

\* The step in which the transport signals 'close' on socket c.
ClosedStep(c) == sockets[c] = "open" /\ sockets'[c] = "closed"

\* The attempt of Connection c has returned.
Resolved(c) == c # connection

\* The notifications the step adds to the log.
NewlyFired == {fired'[i] : i \in (Len(fired) + 1)..Len(fired')}

\* The step in which the server is deactivated.
DeactivateStep == app # NULL /\ app' = NULL

\* The step that starts an _onConnectionAttempt: the Connection is constructed
\* and the shared record is initialized with it.
RequestStep == pc = "idle" /\ pc' = "request"

\* Every state the shared record can be in.
ArgsStates ==
    [_isAllowed : BOOLEAN, _isDenied : BOOLEAN,
     connection : {NULL} \cup (1..MaxSockets),
     error : {SERVER_FULL} \cup Errors]

\* The step that ends the running _onConnectionAttempt.
VerdictStep == pc = "request" /\ pc' = "idle"

CalledAllow == \E i \in 1..Len(calls) : calls[i].op = "allow"

CalledDeny == \E i \in 1..Len(calls) : calls[i].op = "deny"

\* The descriptor of the last deny() call of the running broadcast.
LastDenyError ==
    LET i == CHOOSE k \in 1..Len(calls) :
                /\ calls[k].op = "deny"
                /\ \A j \in (k + 1)..Len(calls) : calls[j].op # "deny"
    IN  calls[i].err

\* C1 (as stated): in every reachable state a Connection is in connectionList
\* if and only if its attempt was approved and its socket has not been cleared
\* by disconnect(err) or by the transport's close callback.
C1_LiveIffApprovedAndConnected ==
    \A c \in Conns :
        InList(c) <=> (Approved(c) /\ connections[c].socket # NULL)

\* C2: the verdict step admits the Connection (appends it to connectionList
\* and fires CONNECT with it as payload, once) if and only if a subscriber
\* called allow() and none called deny() during the broadcast; otherwise
\* connectionList is unchanged and nothing is fired.  CONNECT is never fired
\* a second time for the same Connection.
C2_AdmittedIffAllowedAndNotDenied ==
    /\ [][VerdictStep =>
            IF CalledAllow /\ ~CalledDeny
            THEN /\ connectionList' = Append(connectionList, connection)
                 /\ fired' = Fire(fired, CONNECT, connection)
                 /\ Count(fired', CONNECT, connection) = 1
            ELSE /\ connectionList' = connectionList
                 /\ fired' = fired]_vars
    /\ [][\A c \in Conns : Count(fired, CONNECT, c) = 1
                              => Count(fired', CONNECT, c) = 1]_vars

\* C2 witness: the last attempt was resolved after allow() and no deny(), and
\* its Connection is listed with one CONNECT fired.
C2_Witness ==
    /\ pc = "idle"
    /\ Len(connections) = 2
    /\ connectionRequestArgs._isAllowed /\ ~connectionRequestArgs._isDenied
    /\ InList(2)
    /\ Count(fired, CONNECT, 2) = 1

\* C3: when no subscriber called allow() or deny() during the broadcast (also
\* with no subscriber at all), the verdict step closes the raw socket with
\* id 100 and "Server Full" and leaves connectionList alone; and a Connection
\* enters connectionList at the verdict step of its own attempt only, so this
\* Connection is never added.
C3_DefaultDenyServerFull ==
    /\ [][VerdictStep /\ ~CalledAllow /\ ~CalledDeny =>
            /\ closeCalls'[connection] =
                   Append(closeCalls[connection], [id |-> 100, msg |-> "Server Full"])
            /\ connectionList' = connectionList
            /\ fired' = fired]_vars
    /\ [][\A c \in Conns : ~InList(c) /\ InList(c)' =>
            VerdictStep /\ connection = c]_vars

\* C3 witness: the second attempt, made after an attempt denied with another
\* descriptor, got no answer; its socket was closed with Server Full.
C3_Witness ==
    /\ pc = "idle"
    /\ Len(connections) = 2
    /\ closeCalls[1] = <<BANNED>>
    /\ ~connectionRequestArgs._isAllowed /\ ~connectionRequestArgs._isDenied
    /\ closeCalls[2] = <<[id |-> 100, msg |-> "Server Full"]>>
    /\ ~InList(2)

\* C4: when a subscriber called deny(err) during the broadcast, whatever
\* allow() calls came before or after it, the verdict step closes the socket
\* with the descriptor of the last deny() call, connectionList is unchanged
\* and nothing is fired.
C4_LastDenyWins ==
    [][VerdictStep /\ CalledDeny =>
            /\ closeCalls'[connection] = Append(closeCalls[connection], LastDenyError)
            /\ connectionList' = connectionList
            /\ fired' = fired]_vars

\* C4 witness: an attempt resolved after both allow() and deny() were called,
\* with the socket closed once, with the descriptor the record holds.
C4_Witness ==
    /\ pc = "idle"
    /\ Len(connections) = 1
    /\ connectionRequestArgs._isAllowed /\ connectionRequestArgs._isDenied
    /\ closeCalls[1] = <<BANNED>>
    /\ ~InList(1)
    /\ ~Approved(1)

\* C5 (as stated): whenever the transport of a Connection in connectionList
\* signals close, after a close by the client or by the server through
\* disconnect(err), the Connection is removed from connectionList and
\* DISCONNECT is fired with it as payload.
C5_CloseRemovesAndNotifies ==
    [][\A c \in Conns : ClosedStep(c) /\ InList(c) =>
            /\ ~InList(c)'
            /\ fired' = Fire(fired, DISCONNECT, c)]_vars

\* C6: for a Connection in connectionList whose socket is still present (no
\* disconnect has acted on it), the transport's close callback removes it and
\* fires DISCONNECT with it as payload, the only one ever fired for it; once
\* the transport has signalled close, disconnect(err) on it calls no
\* socket.close, fires nothing, throws nothing and changes neither it nor
\* connectionList.
C6_TransportCloseThenDisconnectNoOp ==
    /\ [][\A c \in Conns :
            ClosedStep(c) /\ InList(c) /\ connections[c].socket # NULL =>
                /\ ~InList(c)'
                /\ fired' = Fire(fired, DISCONNECT, c)
                /\ Count(fired', DISCONNECT, c) = 1]_vars
    /\ [][\A c \in Conns : Count(fired, DISCONNECT, c) = 1
                              => Count(fired', DISCONNECT, c) = 1]_vars
    /\ [][\A c \in Conns, err \in Errors :
            Disconnect(c, err) /\ sockets[c] = "closed" =>
                /\ UNCHANGED <<connections, closeCalls, fired, connectionList>>
                /\ thrown' = "none"]_vars

\* C6 witness: an approved Connection whose transport closed: one DISCONNECT,
\* not listed any more, socket cleared by the callback and never closed by
\* the server.
C6_Witness ==
    \E c \in Conns :
        /\ Approved(c)
        /\ Count(fired, DISCONNECT, c) = 1
        /\ ~InList(c)
        /\ sockets[c] = "closed"
        /\ connections[c] = [sessionServer |-> SERVER, socket |-> NULL]
        /\ closeCalls[c] = <<>>

C8_DisconnectIdempotent ==
    /\ [][\A c \in Conns, err \in Errors : Disconnect(c, err) =>
            /\ connections'[c].socket = NULL
            /\ thrown' = "none"
            /\ \A again \in Errors :
                   disconnect(connections'[c], again) =
                       [conn |-> connections'[c], closed |-> <<>>, thrown |-> "none"]]_vars
    /\ [][\A c \in Conns, err \in Errors :
            Disconnect(c, err) /\ connections[c].socket = NULL =>
                UNCHANGED <<connections, connectionList, fired, closeCalls>>]_vars

\* C8 witness: a listed Connection after disconnect(err): both references
\* cleared, its socket closed exactly once, no DISCONNECT fired, nothing thrown.
C8_Witness ==
    \E c \in Conns :
        /\ InList(c)
        /\ connections[c] = [sessionServer |-> NULL, socket |-> NULL]
        /\ Len(closeCalls[c]) = 1
        /\ Count(fired, DISCONNECT, c) = 0
        /\ thrown = "none"

\* C9 (as stated): disconnect(err) with err omitted fails, whether the socket
\* is still present or has been cleared, and leaves the Connection unchanged.
C9_DisconnectWithoutErrorFails ==
    /\ [](nullCall = "disconnect" => thrown # "none")
    /\ [][nullCall' = "disconnect" => connections' = connections]_vars

\* C10 (as stated): once the socket of a Connection is null it stays null,
\* and a Connection whose socket is null is never appended to connectionList.
C10_DeadConnectionNeverListed ==
    /\ [][\A c \in Conns : connections[c].socket = NULL
                              => connections'[c].socket = NULL]_vars
    /\ [][\A c \in Conns : ~InList(c) /\ InList(c)'
                              => connections'[c].socket # NULL]_vars

\* C11: for a Connection whose attempt was denied, the verdict step fires
\* nothing, and no later step (transport close callbacks, disconnect(err),
\* removeConnection, other attempts) fires a notification with it as payload:
\* CONNECT and DISCONNECT are never fired for it.
C11_DeniedNeverNotified ==
    /\ [][VerdictStep /\ connectionList' = connectionList => fired' = fired]_vars
    /\ [][\A c \in Conns : Resolved(c) /\ ~Approved(c) =>
            \A n \in NewlyFired : n.payload # c]_vars
    /\ [](\A c \in Conns : Resolved(c) /\ ~InList(c) /\ ~Approved(c) =>
            /\ Count(fired, CONNECT, c) = 0
            /\ Count(fired, DISCONNECT, c) = 0)

\* C11 witness: a Connection denied with a subscriber's descriptor, then
\* disconnected, whose transport has then signalled close: nothing but its
\* CONNECTION_REQUEST was ever fired for it.
C11_Witness ==
    \E c \in Conns :
        /\ Resolved(c)
        /\ closeCalls[c] = <<BANNED, SESSION_TERMINATED>>
        /\ sockets[c] = "closed"
        /\ connections[c] = [sessionServer |-> NULL, socket |-> NULL]
        /\ Count(fired, CONNECT, c) = 0
        /\ Count(fired, DISCONNECT, c) = 0
        /\ Count(fired, CONNECTION_REQUEST, c) = 1

C13_CallsOutsideBroadcastIgnored ==
    /\ [][pc = "idle" /\ connectionRequestArgs' # connectionRequestArgs /\ pc' = "idle" =>
            /\ UNCHANGED <<connectionList, connections, sockets, closeCalls, fired>>
            /\ connectionRequestArgs'.connection = NULL]_vars
    /\ [][VerdictStep =>
            IF CalledAllow /\ ~CalledDeny
            THEN /\ connectionList' = Append(connectionList, connection)
                 /\ fired' = Fire(fired, CONNECT, connection)
                 /\ closeCalls' = closeCalls
            ELSE /\ connectionList' = connectionList
                 /\ fired' = fired
                 /\ closeCalls'[connection] =
                        Append(closeCalls[connection],
                               IF CalledDeny THEN LastDenyError
                               ELSE [id |-> 100, msg |-> "Server Full"])]_vars

\* C13 witness: the second attempt got no answer and was closed with Server
\* Full, and the record now holds an allow() and a deny(err) made after it;
\* the first attempt, denied with another descriptor, keeps its outcome.
C13_Witness ==
    /\ pc = "idle"
    /\ Len(connections) = 2
    /\ closeCalls[1] = <<SESSION_TERMINATED>>
    /\ closeCalls[2] = <<[id |-> 100, msg |-> "Server Full"]>>
    /\ connections[1].socket # NULL
    /\ connectionRequestArgs._isAllowed
    /\ connectionRequestArgs._isDenied
    /\ connectionRequestArgs.error = BANNED
    /\ connectionList = <<>>
    /\ ~Approved(1) /\ ~Approved(2)

\* C14 (as stated): once disconnect(err) has acted on a Connection whose
\* socket was present, or its transport has signalled close, whichever came
\* first, the Connection is destroyed: its socket and its sessionServer
\* reference are both null.
C14_DestroyedAfterDisconnectOrClose ==
    \A c \in Conns :
        (connections[c].socket = NULL \/ sockets[c] = "closed") =>
            connections[c] = [sessionServer |-> NULL, socket |-> NULL]

\* C15: initialize(null), deny(null) and removeConnection(null) each throw an
\* Error and change nothing: the record's flags, error and bound connection,
\* connectionList, the Connections and the notifications are as before the call.
C15_NullArgumentsFail ==
    /\ [](nullCall \in {"initialize", "deny", "removeConnection"} => thrown = "Error")
    /\ [][nullCall' \in {"initialize", "deny", "removeConnection"} =>
            UNCHANGED <<connectionRequestArgs, connectionList, connections, sockets,
                        closeCalls, fired, pc, connection, calls>>]_vars

\* C15 witness: deny(null) has just thrown inside the broadcast of the second
\* attempt, after an allow(): the record is still allowed, not denied, bound to
\* the Connection and holds the default error, and the listed Connection of
\* the first attempt is still listed.
C15_Witness ==
    /\ nullCall = "deny"
    /\ thrown = "Error"
    /\ pc = "request"
    /\ calls = <<Call("allow", NO_ERROR)>>
    /\ connectionRequestArgs =
           [_isAllowed |-> TRUE, _isDenied |-> FALSE, connection |-> 2,
            error |-> [id |-> 100, msg |-> "Server Full"]]
    /\ connectionList = <<1>>

\* C16: onDeactivate does not drop live connections: the step leaves
\* connectionList, every Connection's socket and sessionServer, the
\* socket.close calls and the notifications unchanged; no attempt starts while
\* the server is inactive; and a listed Connection whose socket is present is
\* still removed, with one DISCONNECT, when its transport signals close while
\* the server is inactive.
C16_DeactivateKeepsConnections ==
    /\ [][DeactivateStep =>
            UNCHANGED <<connectionList, connections, sockets, closeCalls, fired>>]_vars
    /\ [][app = NULL => ~RequestStep]_vars
    /\ [][\A c \in Conns :
            app = NULL /\ ClosedStep(c) /\ InList(c) /\ connections[c].socket # NULL =>
                /\ ~InList(c)'
                /\ fired' = Fire(fired, DISCONNECT, c)]_vars

\* C16 witness: the server is inactive after an activation, one approved
\* Connection is still listed with both references and an open transport, and
\* another one has been removed with its DISCONNECT.
C16_Witness ==
    /\ app = NULL
    /\ httpServer = NULL
    /\ Len(connections) = 2
    /\ connectionList = <<2>>
    /\ connections[2] = [sessionServer |-> SERVER, socket |-> 2]
    /\ sockets[2] = "open"
    /\ closeCalls[2] = <<>>
    /\ Approved(1)
    /\ Count(fired, DISCONNECT, 1) = 1
    /\ Count(fired, DISCONNECT, 2) = 0

\* C18: whatever the order of disconnect(err) calls, transport close
\* callbacks (one or more) and removeConnection calls on a Connection that is
\* in connectionList, at most one DISCONNECT is ever fired for it: a removal
\* attempt on a Connection that is not listed fires nothing, and a Connection
\* occurs at most once in connectionList.
C18_AtMostOneDisconnect ==
    /\ [](\A c \in Conns : Count(fired, DISCONNECT, c) <= 1)
    /\ [](\A i, j \in 1..Len(connectionList) :
              connectionList[i] = connectionList[j] => i = j)
    /\ [][\A c \in Conns : ~InList(c) =>
              Count(fired', DISCONNECT, c) = Count(fired, DISCONNECT, c)]_vars

\* C18 witness: two approved Connections, both with a close signalled by the
\* transport: on the first the callback came first (one DISCONNECT) and a
\* removeConnection or disconnect after it fired nothing more; on the second
\* disconnect(err) came first and the callback fired nothing.
C18_Witness ==
    /\ Len(connections) = 2
    /\ Approved(1) /\ Approved(2)
    /\ sockets[1] = "closed" /\ sockets[2] = "closed"
    /\ closeCalls[1] = <<>>
    /\ closeCalls[2] = <<SESSION_TERMINATED>>
    /\ Count(fired, DISCONNECT, 1) = 1
    /\ Count(fired, DISCONNECT, 2) = 0

\* C19: whenever no _onConnectionAttempt is running, CONNECT and DISCONNECT
\* broadcasts included, the shared record's connection field is null; it is
\* bound, to the Connection of the running attempt, only during that
\* attempt's CONNECTION_REQUEST broadcast, and the verdict step clears it for
\* the denied and for the approved outcome, before the socket is closed or
\* CONNECT is fired.
C19_RequestBoundOnlyDuringBroadcast ==
    /\ [](pc = "idle" => connectionRequestArgs.connection = NULL)
    /\ [](pc = "request" => /\ connection # NULL
                            /\ connectionRequestArgs.connection = connection)
    /\ [][VerdictStep => connectionRequestArgs'.connection = NULL]_vars
    /\ [][fired' # fired /\ ~RequestStep => connectionRequestArgs'.connection = NULL]_vars

\* C19 witness: no attempt is running after a denied and an approved attempt,
\* the approved Connection has since been removed with a DISCONNECT, and the
\* record, still holding the flags of the last attempt, is bound to nothing.
C19_Witness ==
    /\ pc = "idle"
    /\ Len(connections) = 2
    /\ closeCalls[1] = <<[id |-> 100, msg |-> "Server Full"]>>
    /\ Approved(2)
    /\ Count(fired, DISCONNECT, 2) = 1
    /\ connectionRequestArgs._isAllowed
    /\ connectionRequestArgs.connection = NULL

\* C20: the notifications of one Connection are ordered.  Every attempt fires
\* CONNECTION_REQUEST exactly once, in its first step; CONNECT is fired at most
\* once per Connection, by the verdict step of its own attempt, which appends
\* it to connectionList; in the log a CONNECT comes after the
\* CONNECTION_REQUEST of its Connection and a DISCONNECT after the CONNECT of
\* its Connection, so that DISCONNECT is never fired for a Connection that was
\* not admitted.
C20_NotificationsOrdered ==
    /\ [](\A c \in Conns : /\ Count(fired, CONNECTION_REQUEST, c) = 1
                            /\ Count(fired, CONNECT, c) <= 1)
    /\ [](\A i \in 1..Len(fired) :
            /\ fired[i].payload \in Conns
            /\ fired[i].event = CONNECT =>
                   \E j \in 1..(i - 1) :
                       fired[j] = [event |-> CONNECTION_REQUEST, payload |-> fired[i].payload]
            /\ fired[i].event = DISCONNECT =>
                   \E j \in 1..(i - 1) :
                       fired[j] = [event |-> CONNECT, payload |-> fired[i].payload])
    /\ [][RequestStep =>
            fired' = Fire(fired, CONNECTION_REQUEST, connection')]_vars
    /\ [][\A n \in NewlyFired : n.event = CONNECT =>
            /\ VerdictStep
            /\ n.payload = connection
            /\ connectionList' = Append(connectionList, connection)]_vars
    /\ [][\A n \in NewlyFired : n.event = DISCONNECT =>
            Approved(n.payload) /\ InList(n.payload)]_vars

\* C20 witness: the whole log of an approved attempt, a denied attempt and
\* the removal of the approved Connection on its transport's close, which
\* was also signalled for the denied one.
C20_Witness ==
    /\ fired = <<[event |-> CONNECTION_REQUEST, payload |-> 1],
                 [event |-> CONNECT, payload |-> 1],
                 [event |-> CONNECTION_REQUEST, payload |-> 2],
                 [event |-> DISCONNECT, payload |-> 1]>>
    /\ pc = "idle"
    /\ sockets = <<"closed", "closed">>
    /\ connectionList = <<>>

\* C17 (as stated): isAlive() is true if and only if the socket reference is
\* non-null and now - keepAlive is below 5000 ms; it is true right after
\* construction, false once 5000 ms or more have elapsed, and false after
\* disconnect(err) or a transport close, whatever the elapsed time.
C17_IsAlive ==
    \A c \in Conns :
        LET alive == isAlive(connections[c], keepAlive[c], now)
        IN  /\ alive = "true" <=>
                   (connections[c].socket # NULL /\ now - keepAlive[c] < 5000)
            /\ connections[c].socket # NULL /\ keepAlive[c] = now => alive = "true"
            /\ connections[c].socket # NULL /\ now - keepAlive[c] >= 5000 => alive = "false"
            /\ connections[c].socket = NULL => alive = "false"
====
